---- MODULE Spec2Model ----
(***************************************************************************)
(* A model of src/MutationObserver.js: the JsMutationObserver polyfill     *)
(* built on DOM mutation events.  The state is the registrations side      *)
(* table, the event listeners attached to the nodes, and every observer's  *)
(* nodes_ list and records_ array.  Arrays and records are objects with    *)
(* identity, so that aliasing and the prototype test of enqueue are what   *)
(* the code makes them.                                                    *)
(***************************************************************************)
EXTENDS Integers, Sequences, FiniteSets, TLC

VARIABLES
  registrationsTable, \* the side table: node -> the sequence of its Registrations
  listeners,          \* the capturing listeners attached: [node, type, listener]
  nodes_,             \* observer -> sequence of nodes (this.nodes_)
  records_,           \* observer -> id of the array this.records_ refers to
  arrays,             \* observer -> array id -> the array's contents
  nextRegistration,   \* identity given to the next new Registration
  nextChange,         \* identity given to the records of the next handled event
  taken,              \* observer -> id of the array its caller last got from takeRecords (0: none)
  takenSnapshot,      \* observer -> contents of that array when it was returned
  disconnected,       \* observers that called disconnect() and not observe() since
  callerOptions,      \* the options object the caller of the all-options runs holds
  callbackRuns,       \* observer -> times its callback_ was called
  steps,              \* operations made so far
  last                \* the last operation: its arguments and what it did

vars == <<registrationsTable, listeners, nodes_, records_, arrays,
          nextRegistration, nextChange, taken, takenSnapshot, disconnected,
          callerOptions, callbackRuns, steps, last>>

\* ------------------------------------------------------------------ bounds

\* Operations (calls of the observers' methods, events fired) in a run.
MaxSteps == 4

\* The same, in a run of the all-options specification.
MaxOptionSteps == 3

\* Calls of enqueue and takeRecords in a run of the enqueue specification.
MaxEnqueueSteps == 3

\* Calls and changes in a run of the record-variant specification.
MaxVariantSteps == 3

\* ------------------------------------------------------------------ values

Null == "null"
Observers == {"o1", "o2"}

\* The tree: A is the root, B its child, C the child of B.
Nodes == {"A", "B", "C"}

\* The nodes the main specification observes and changes.
MainNodes == {"A", "B"}

parentNode(node) ==
  CASE node = "A" -> Null
    [] node = "B" -> "A"
    [] node = "C" -> "B"

ArrayIds == {1, 2}

AttrModified == "DOMAttrModified"
CharacterDataModified == "DOMCharacterDataModified"

ADDITION == "ADDITION"
MODIFICATION == "MODIFICATION"

\* An optional array: {} when the property is undefined, else { the array }.
NoArray == {}
Array(a) == {a}
ArrayOf(opt) == CHOOSE a \in opt : TRUE

\* MutationObserverInit.  attributeFilter is undefined or an array of strings.
Filters == {NoArray, Array(<<>>), Array(<<"id">>), Array(<<"ns">>)}

AllOptions ==
  [childList : BOOLEAN, attributes : BOOLEAN, characterData : BOOLEAN,
   subtree : BOOLEAN, attributeOldValue : BOOLEAN,
   characterDataOldValue : BOOLEAN, attributeFilter : Filters]

Opt(cl, at, cd, st, aov, cdov, af) ==
  [childList |-> cl, attributes |-> at, characterData |-> cd, subtree |-> st,
   attributeOldValue |-> aov, characterDataOldValue |-> cdov,
   attributeFilter |-> af]

\* The options the callers of the main specification use.
OptionsPool ==
  { Opt(FALSE, TRUE, FALSE, FALSE, FALSE, FALSE, NoArray),
    Opt(FALSE, TRUE, FALSE, TRUE, TRUE, FALSE, NoArray),
    Opt(FALSE, FALSE, TRUE, TRUE, FALSE, TRUE, NoArray),
    Opt(TRUE, FALSE, FALSE, FALSE, TRUE, FALSE, NoArray) }

\* The low-level events the tree implementation delivers at the given nodes.
Events(targets) ==
  [type : {AttrModified}, target : targets, attrName : {"id", "class"},
   namespaceURI : {Null, "ns"}, attrChange : {ADDITION, MODIFICATION},
   prevValue : {"old"}]
  \cup
  [type : {CharacterDataModified}, target : targets, attrName : {Null},
   namespaceURI : {Null}, attrChange : {MODIFICATION}, prevValue : {"old"}]

Event(type, target, attrName, namespaceURI, attrChange) ==
  [type |-> type, target |-> target, attrName |-> attrName,
   namespaceURI |-> namespaceURI, attrChange |-> attrChange,
   prevValue |-> "old"]

\* The events fired in the main specification.
EventsPool ==
  { Event(AttrModified, "B", "id", Null, MODIFICATION),
    Event(AttrModified, "A", "id", Null, MODIFICATION),
    Event(CharacterDataModified, "B", Null, Null, MODIFICATION) }

\* Each watched kind without and with its old value, over the subtree.
VariantOptions ==
  { Opt(FALSE, TRUE, FALSE, TRUE, FALSE, FALSE, NoArray),
    Opt(FALSE, TRUE, FALSE, TRUE, TRUE, FALSE, NoArray),
    Opt(FALSE, FALSE, TRUE, TRUE, FALSE, FALSE, NoArray),
    Opt(FALSE, FALSE, TRUE, TRUE, FALSE, TRUE, NoArray) }

\* A changed attribute, an added attribute and changed character data at B.
VariantEvents ==
  { Event(AttrModified, "B", "id", Null, MODIFICATION),
    Event(AttrModified, "B", "id", Null, ADDITION),
    Event(CharacterDataModified, "B", Null, Null, MODIFICATION) }

\* ------------------------------------------------------------------ records

mutationRecordPrototype ==
  [id |-> <<0, 0>>, variant |-> "prototype", type |-> Null, target |-> Null,
   attributeName |-> Null, attributeNamespace |-> Null, oldValue |-> Null]

\* record = Object.create(mutationRecordPrototype) with its own fields set;
\* id is the identity of the object: the event and the handler run that made it.
AttributesRecord(e, id) ==
  [id |-> id, variant |-> "record", type |-> "attributes",
   target |-> e.target, attributeName |-> e.attrName,
   attributeNamespace |-> e.namespaceURI, oldValue |-> Null]

CharacterDataRecord(e, id) ==
  [id |-> id, variant |-> "record", type |-> "characterData",
   target |-> e.target, attributeName |-> Null,
   attributeNamespace |-> Null, oldValue |-> Null]

\* recordWithOldValue = Object.create(record): every field but oldValue is
\* read through the prototype.
RecordWithOldValue(record, oldValue) ==
  [record EXCEPT !.variant = "recordWithOldValue", !.oldValue = oldValue]

GetPrototypeOf(record) ==
  IF record.variant = "recordWithOldValue"
    THEN [record EXCEPT !.variant = "record", !.oldValue = Null]
    ELSE mutationRecordPrototype

AttrOldValue(e) == IF e.attrChange = ADDITION THEN Null ELSE e.prevValue

\* ------------------------------------------------------------------ observe

\* InvalidOptions without the test of attributeFilter.length: an empty filter
\* counts as a filter.
InvalidOptionsNoLength(options) ==
  \/ ~options.childList /\ ~options.attributes /\ ~options.characterData
  \/ options.attributeOldValue /\ ~options.attributes
  \/ options.attributeFilter # NoArray /\ ~options.attributes
  \/ options.characterDataOldValue /\ ~options.characterData

\* The test of observe that throws SyntaxError (steps 1.1 to 1.4).
InvalidOptions(options) ==
  \/ ~options.childList /\ ~options.attributes /\ ~options.characterData
  \/ options.attributeOldValue /\ ~options.attributes
  \/ /\ options.attributeFilter # NoArray
     /\ Len(ArrayOf(options.attributeFilter)) # 0
     /\ ~options.attributes
  \/ options.characterDataOldValue /\ ~options.characterData

\* registrationsTable.get(node); an absent entry reads as undefined.
HasEntry(table, node) == node \in DOMAIN table

\* The listener object a Registration is, and the one an observer is.
RegistrationObject(registration) ==
  [kind |-> "Registration", id |-> registration.id,
   observer |-> registration.observer]

ObserverObject(o) == [kind |-> "JsMutationObserver", id |-> 0, observer |-> o]

Listener(node, type, object) == [node |-> node, type |-> type, object |-> object]

\* AddListeners with the two event names exchanged.
AddListenersSwapped(ls, registration) ==
  ls \cup (IF registration.options.attributes
             THEN {Listener(registration.target, CharacterDataModified,
                            RegistrationObject(registration))}
             ELSE {})
     \cup (IF registration.options.characterData
             THEN {Listener(registration.target, AttrModified,
                            RegistrationObject(registration))}
             ELSE {})

\* addEventListener: a listener already attached is not attached twice.
AddListeners(ls, registration) ==
  ls \cup (IF registration.options.attributes
             THEN {Listener(registration.target, AttrModified,
                            RegistrationObject(registration))}
             ELSE {})
     \cup (IF registration.options.characterData
             THEN {Listener(registration.target, CharacterDataModified,
                            RegistrationObject(registration))}
             ELSE {})

\* removeEventListener is given this.observer, not the Registration.
RemoveListeners(ls, registration) ==
  (ls \ (IF registration.options.attributes
           THEN {Listener(registration.target, AttrModified,
                          ObserverObject(registration.observer))}
           ELSE {}))
      \ (IF registration.options.characterData
           THEN {Listener(registration.target, CharacterDataModified,
                          ObserverObject(registration.observer))}
           ELSE {})

NewRegistration(id, observer, target, options) ==
  [id |-> id, observer |-> observer, target |-> target, options |-> options]

\* The index of the first registration of observer o in registrations, or 0.
IndexOfObserver(registrations, o) ==
  IF \E i \in 1..Len(registrations) : registrations[i].observer = o
    THEN CHOOSE i \in 1..Len(registrations) :
           /\ registrations[i].observer = o
           /\ \A j \in 1..(i - 1) : registrations[j].observer # o
    ELSE 0

\* ObserveRegistrations without the search for the observer's registration.
ObserveRegistrationsAlwaysAppends(registrations, o, target, options, newId) ==
  Append(registrations, NewRegistration(newId, o, target, options))

\* ObserveRegistrations with a found registration left as it was.
ObserveRegistrationsKeepsOptions(registrations, o, target, options, newId) ==
  LET i == IndexOfObserver(registrations, o)
  IN  IF i # 0
        THEN registrations
        ELSE Append(registrations, NewRegistration(newId, o, target, options))

\* The registrations of target after observe (steps 2 and 3).
ObserveRegistrations(registrations, o, target, options, newId) ==
  LET i == IndexOfObserver(registrations, o)
  IN  IF i # 0
        THEN [registrations EXCEPT ![i].options = options]
        ELSE Append(registrations, NewRegistration(newId, o, target, options))

\* The listeners after observe: those of the replaced options are removed
\* before the options are swapped, then those of the new options are added.
ObserveListeners(ls, registrations, o, target, options, newId) ==
  LET i == IndexOfObserver(registrations, o)
  IN  IF i # 0
        THEN AddListeners(RemoveListeners(ls, registrations[i]),
                          [registrations[i] EXCEPT !.options = options])
        ELSE AddListeners(ls, NewRegistration(newId, o, target, options))

\* The side table with target's entry set.
SetEntry(table, target, registrations) ==
  [node \in DOMAIN table \cup {target} |->
     IF node = target THEN registrations ELSE table[node]]

\* ObserveCall with the options tested after steps 2 and 3 instead of before.
ObserveCallLateThrow(st, o, target, options, newId) ==
  LET registrations == IF HasEntry(st.table, target)
                         THEN st.table[target]
                         ELSE <<>>
      found == IndexOfObserver(registrations, o) # 0
  IN  [table |-> SetEntry(st.table, target,
                   ObserveRegistrations(registrations, o, target,
                                        options, newId)),
       listeners |-> ObserveListeners(st.listeners, registrations, o,
                                      target, options, newId),
       nodes |-> IF found THEN st.nodes ELSE Append(st.nodes, target),
       threw |-> InvalidOptions(options),
       created |-> ~found]

\* The whole of observe on st = [table, listeners, nodes]: what it leaves of
\* them, whether it threw, and whether it created a Registration.
ObserveCall(st, o, target, options, newId) ==
  IF InvalidOptions(options)
    THEN [table |-> st.table, listeners |-> st.listeners, nodes |-> st.nodes,
          threw |-> TRUE, created |-> FALSE]
    ELSE LET registrations == IF HasEntry(st.table, target)
                                THEN st.table[target]
                                ELSE <<>>
             found == IndexOfObserver(registrations, o) # 0
         IN  [table |-> SetEntry(st.table, target,
                          ObserveRegistrations(registrations, o, target,
                                               options, newId)),
              listeners |-> ObserveListeners(st.listeners, registrations, o,
                                             target, options, newId),
              nodes |-> IF found THEN st.nodes ELSE Append(st.nodes, target),
              threw |-> FALSE,
              created |-> ~found]

\* ------------------------------------------------------------------ disconnect

\* DisconnectNode with splice(i) for splice(i, 1): the rest of the list goes too.
DisconnectNodeSpliceTail(st, o, node) ==
  LET registrations == st.table[node]
      i == IndexOfObserver(registrations, o)
  IN  IF i = 0
        THEN st
        ELSE [table |-> [st.table EXCEPT ![node] = SubSeq(registrations, 1, i - 1)],
              listeners |-> RemoveListeners(st.listeners, registrations[i])]

\* DisconnectNode without the splice: the registration stays in the list.
DisconnectNodeNoSplice(st, o, node) ==
  LET registrations == st.table[node]
      i == IndexOfObserver(registrations, o)
  IN  IF i = 0
        THEN st
        ELSE [table |-> st.table,
              listeners |-> RemoveListeners(st.listeners, registrations[i])]

\* One iteration of disconnect's forEach: the first registration of o on node
\* is detached and spliced out of the node's list.
DisconnectNode(st, o, node) ==
  LET registrations == st.table[node]
      i == IndexOfObserver(registrations, o)
  IN  IF i = 0
        THEN st
        ELSE [table |-> [st.table EXCEPT ![node] =
                           SubSeq(registrations, 1, i - 1)
                             \o SubSeq(registrations, i + 1, Len(registrations))],
              listeners |-> RemoveListeners(st.listeners, registrations[i])]

RECURSIVE DisconnectNodes(_, _, _)
DisconnectNodes(st, o, nodes) ==
  IF nodes = <<>>
    THEN st
    ELSE DisconnectNodes(DisconnectNode(st, o, Head(nodes)), o, Tail(nodes))

\* this.nodes_ after disconnect.
DisconnectNodeList(nodes) == nodes

\* ------------------------------------------------------------------ enqueue

\* Enqueue with the new record put at the front (unshift) instead of the end.
EnqueueAtFront(records, record) ==
  LET length == Len(records)
  IN  IF length > 0
        THEN LET lastRecord == records[length]
             IN  IF record = lastRecord \/ record = GetPrototypeOf(lastRecord)
                   THEN records
                   ELSE IF GetPrototypeOf(record) = lastRecord
                          THEN [records EXCEPT ![length] = record]
                          ELSE <<record>> \o records
        ELSE <<record>> \o records

\* Enqueue without the upgrade of the last entry: the extended record is
\* appended after its base.
EnqueueNoUpgrade(records, record) ==
  LET length == Len(records)
  IN  IF length > 0
        THEN LET lastRecord == records[length]
             IN  IF record = lastRecord \/ record = GetPrototypeOf(lastRecord)
                   THEN records
                   ELSE Append(records, record)
        ELSE Append(records, record)

\* The field values of a record, its identity left out.
Fields(record) == [record EXCEPT !.id = <<0, 0>>]

\* Enqueue with records compared by their field values instead of identity.
EnqueueByValue(records, record) ==
  LET length == Len(records)
  IN  IF length > 0
        THEN LET lastRecord == records[length]
             IN  IF \/ Fields(record) = Fields(lastRecord)
                    \/ Fields(record) = Fields(GetPrototypeOf(lastRecord))
                   THEN records
                   ELSE IF Fields(GetPrototypeOf(record)) = Fields(lastRecord)
                          THEN [records EXCEPT ![length] = record]
                          ELSE Append(records, record)
        ELSE Append(records, record)

\* Enqueue without the discard test: a record is kept out only by the upgrade.
EnqueueNoDiscard(records, record) ==
  LET length == Len(records)
  IN  IF length > 0
        THEN LET lastRecord == records[length]
             IN  IF GetPrototypeOf(record) = lastRecord
                   THEN [records EXCEPT ![length] = record]
                   ELSE Append(records, record)
        ELSE Append(records, record)

\* Registration.prototype.enqueue on the contents of the observer's array.
Enqueue(records, record) ==
  LET length == Len(records)
  IN  IF length > 0
        THEN LET lastRecord == records[length]
             IN  IF record = lastRecord \/ record = GetPrototypeOf(lastRecord)
                   THEN records
                   ELSE IF GetPrototypeOf(record) = lastRecord
                          THEN [records EXCEPT ![length] = record]
                          ELSE Append(records, record)
        ELSE Append(records, record)

\* ------------------------------------------------------------------ handleEvent

\* AttributesCallback with the filter matched on name and namespace both.
AttributesCallbackAndMatch(options, e, record, recordWithOldValue) ==
  IF ~options.attributes
    THEN <<>>
    ELSE IF /\ options.attributeFilter # NoArray
            /\ Len(ArrayOf(options.attributeFilter)) # 0
            /\ \/ \A k \in 1..Len(ArrayOf(options.attributeFilter)) :
                    ArrayOf(options.attributeFilter)[k] # e.attrName
               \/ \A k \in 1..Len(ArrayOf(options.attributeFilter)) :
                    ArrayOf(options.attributeFilter)[k] # e.namespaceURI
           THEN <<>>
           ELSE IF options.attributeOldValue
                  THEN <<recordWithOldValue>>
                  ELSE <<record>>

\* The record builders handed to the walk: <<>> when they return undefined.
AttributesCallback(options, e, record, recordWithOldValue) ==
  IF ~options.attributes
    THEN <<>>
    ELSE IF /\ options.attributeFilter # NoArray
            /\ Len(ArrayOf(options.attributeFilter)) # 0
            /\ \A k \in 1..Len(ArrayOf(options.attributeFilter)) :
                 ArrayOf(options.attributeFilter)[k] # e.attrName
            /\ \A k \in 1..Len(ArrayOf(options.attributeFilter)) :
                 ArrayOf(options.attributeFilter)[k] # e.namespaceURI
           THEN <<>>
           ELSE IF options.attributeOldValue
                  THEN <<recordWithOldValue>>
                  ELSE <<record>>

\* CharacterDataCallback with the old-value test on the attribute option.
CharacterDataCallbackAttrOld(options, e, record, recordWithOldValue) ==
  IF ~options.characterData
    THEN <<>>
    ELSE IF options.attributeOldValue
           THEN <<recordWithOldValue>>
           ELSE <<record>>

CharacterDataCallback(options, e, record, recordWithOldValue) ==
  IF ~options.characterData
    THEN <<>>
    ELSE IF options.characterDataOldValue
           THEN <<recordWithOldValue>>
           ELSE <<record>>

Callback(options, e, id) ==
  IF e.type = AttrModified
    THEN AttributesCallback(options, e, AttributesRecord(e, id),
           RecordWithOldValue(AttributesRecord(e, id), AttrOldValue(e)))
    ELSE CharacterDataCallback(options, e, CharacterDataRecord(e, id),
           RecordWithOldValue(CharacterDataRecord(e, id), e.prevValue))

\* SkipsRegistration without the subtree test.
SkipsRegistrationNever(node, target, options) == FALSE

\* "Only target ignores subtree."
SkipsRegistration(node, target, options) == node # target /\ ~options.subtree

\* The calls registration.enqueue(record) of one walk from target up, in the
\* order the walk makes them.
RECURSIVE EnqueuesAtNode(_, _, _, _, _, _)
EnqueuesAtNode(registrations, j, node, target, e, id) ==
  IF j > Len(registrations)
    THEN <<>>
    ELSE LET registration == registrations[j]
             made == IF SkipsRegistration(node, target, registration.options)
                       THEN <<>>
                       ELSE Callback(registration.options, e, id)
             here == IF made = <<>>
                       THEN <<>>
                       ELSE <<[registration |-> registration.id,
                               observer |-> registration.observer,
                               node |-> node, record |-> made[1]]>>
         IN  here \o EnqueuesAtNode(registrations, j + 1, node, target, e, id)

RECURSIVE ForEachAncestorAndObserverEnqueueRecord(_, _, _, _, _)
ForEachAncestorAndObserverEnqueueRecord(table, node, target, e, id) ==
  IF node = Null
    THEN <<>>
    ELSE (IF HasEntry(table, node)
            THEN EnqueuesAtNode(table[node], 1, node, target, e, id)
            ELSE <<>>)
         \o ForEachAncestorAndObserverEnqueueRecord(table, parentNode(node),
                                                    target, e, id)

\* The queues (observer -> array contents) after the enqueue calls are made.
RECURSIVE ApplyEnqueues(_, _)
ApplyEnqueues(queues, calls) ==
  IF calls = <<>>
    THEN queues
    ELSE ApplyEnqueues(
           [queues EXCEPT ![Head(calls).observer] =
              Enqueue(queues[Head(calls).observer], Head(calls).record)],
           Tail(calls))

\* ------------------------------------------------------------------ event delivery

RECURSIVE Ancestors(_)
Ancestors(node) ==
  IF parentNode(node) = Null
    THEN {}
    ELSE {parentNode(node)} \cup Ancestors(parentNode(node))

\* The Registration listeners a capturing event of e's type at e.target meets.
ListenersOnPath(ls, e) ==
  {l \in ls : /\ l.type = e.type
              /\ l.node \in {e.target} \cup Ancestors(e.target)
              /\ l.object.kind = "Registration"}

\* HandlersRun without e.stopImmediatePropagation(): every listener runs.
HandlersRunAll(count) == count

\* How many of them get to run handleEvent: the first one to run calls
\* e.stopImmediatePropagation(), which keeps the event from all the others.
HandlersRun(count) == IF count > 0 THEN 1 ELSE 0

\* The enqueue calls of all the handleEvent runs of one event; every run builds
\* its own record objects.
RECURSIVE HandleEvents(_, _, _, _, _)
HandleEvents(table, e, change, run, runs) ==
  IF run > runs
    THEN <<>>
    ELSE ForEachAncestorAndObserverEnqueueRecord(table, e.target, e.target, e,
                                                 <<change, run>>)
         \o HandleEvents(table, e, change, run + 1, runs)

\* ------------------------------------------------------------------ arrays

Queue(o) == arrays[o][records_[o]]

\* A new array object: an id no reference of the observer or its caller holds.
NewArray(o, held) == CHOOSE id \in ArrayIds \ held : \A other \in ArrayIds \ held : id <= other

\* takeRecords that empties the array in place (length = 0) and keeps it.
TakeRecordsQueueInPlace(o) == records_[o]

\* The array this.records_ refers to after takeRecords; after disconnect.
TakeRecordsQueue(o) == NewArray(o, {records_[o]})
DisconnectQueue(o) == NewArray(o, {taken[o]})

\* The arrays of o with the ones in live kept, array id set to contents, and
\* the unreferenced ones collected.
Store(o, live, id, contents) ==
  [a \in ArrayIds |-> IF a = id THEN contents
                      ELSE IF a \in live THEN arrays[o][a] ELSE <<>>]

\* ------------------------------------------------------------------ operations

\* The options the caller of the all-options runs re-observes with.
BaselineOptions == Opt(FALSE, FALSE, TRUE, FALSE, FALSE, FALSE, NoArray)

InitWith(options) ==
  /\ registrationsTable = <<>>
  /\ listeners = {}
  /\ nodes_ = [o \in Observers |-> <<>>]
  /\ records_ = [o \in Observers |-> 1]
  /\ arrays = [o \in Observers |-> [a \in ArrayIds |-> <<>>]]
  /\ nextRegistration = 1
  /\ nextChange = 1
  /\ taken = [o \in Observers |-> 0]
  /\ takenSnapshot = [o \in Observers |-> <<>>]
  /\ disconnected = {}
  /\ callerOptions = options
  /\ callbackRuns = [o \in Observers |-> 0]
  /\ steps = 0
  /\ last = [op |-> "new"]

Init == InitWith(BaselineOptions)

InitOptions == \E options \in AllOptions : InitWith(options)
\* CallbackCalls with handleEvent delivering to the callback at once.
CallbackCallsOnChange(o, op) == IF op = "change" THEN 1 ELSE 0

\* The calls of o.callback_ an operation makes: the constructor stores the
\* callback and no method of either prototype calls it.
CallbackCalls(o, op) == 0

\* observer.observe(target, options)
Observe(o, target, options) ==
  LET call == ObserveCall([table |-> registrationsTable,
                           listeners |-> listeners, nodes |-> nodes_[o]],
                          o, target, options, nextRegistration)
  IN  /\ registrationsTable' = call.table
      /\ listeners' = call.listeners
      /\ nodes_' = [nodes_ EXCEPT ![o] = call.nodes]
      /\ nextRegistration' = IF call.created THEN nextRegistration + 1
                                             ELSE nextRegistration
      /\ disconnected' = IF call.threw THEN disconnected
                                       ELSE disconnected \ {o}
      /\ callbackRuns' = [c \in Observers |->
                           callbackRuns[c] + CallbackCalls(c, "observe")]
      /\ last' = [op |-> "observe", observer |-> o, target |-> target,
                  options |-> options, threw |-> call.threw,
                  created |-> call.created]
      /\ UNCHANGED <<records_, arrays, nextChange, taken, takenSnapshot,
                     callerOptions>>

\* observer.disconnect()
Disconnect(o) ==
  LET st == DisconnectNodes([table |-> registrationsTable,
                             listeners |-> listeners], o, nodes_[o])
      new == DisconnectQueue(o)
  IN  /\ registrationsTable' = st.table
      /\ listeners' = st.listeners
      /\ nodes_' = [nodes_ EXCEPT ![o] = DisconnectNodeList(@)]
      /\ records_' = [records_ EXCEPT ![o] = new]
      /\ arrays' = [arrays EXCEPT ![o] = Store(o, {taken[o]}, new, <<>>)]
      /\ disconnected' = disconnected \cup {o}
      /\ callbackRuns' = [c \in Observers |->
                           callbackRuns[c] + CallbackCalls(c, "disconnect")]
      /\ last' = [op |-> "disconnect", observer |-> o,
                  removed |-> {node \in DOMAIN registrationsTable :
                                 IndexOfObserver(registrationsTable[node], o) # 0}]
      /\ UNCHANGED <<nextRegistration, nextChange, taken, takenSnapshot,
                     callerOptions>>

\* observer.takeRecords(); the caller keeps the array it is given.
TakeRecords(o) ==
  LET copyOfRecords == records_[o]
      new == TakeRecordsQueue(o)
  IN  /\ records_' = [records_ EXCEPT ![o] = new]
      /\ arrays' = [arrays EXCEPT ![o] = Store(o, {copyOfRecords}, new, <<>>)]
      /\ taken' = [taken EXCEPT ![o] = copyOfRecords]
      /\ takenSnapshot' = [takenSnapshot EXCEPT ![o] = Queue(o)]
      /\ callbackRuns' = [c \in Observers |->
                           callbackRuns[c] + CallbackCalls(c, "takeRecords")]
      /\ last' = [op |-> "takeRecords", observer |-> o]
      /\ UNCHANGED <<registrationsTable, listeners, nodes_, nextRegistration,
                     nextChange, disconnected, callerOptions>>

\* The tree implementation fires the low-level event e.
Change(e) ==
  LET runs == HandlersRun(Cardinality(ListenersOnPath(listeners, e)))
      calls == HandleEvents(registrationsTable, e, nextChange, 1, runs)
      queues == ApplyEnqueues([o \in Observers |-> Queue(o)], calls)
  IN  /\ arrays' = [o \in Observers |->
                      [arrays[o] EXCEPT ![records_[o]] = queues[o]]]
      /\ nextChange' = IF runs > 0 THEN nextChange + 1 ELSE nextChange
      /\ callbackRuns' = [c \in Observers |->
                           callbackRuns[c] + CallbackCalls(c, "change")]
      /\ last' = [op |-> "change", event |-> e, runs |-> runs]
      /\ UNCHANGED <<registrationsTable, listeners, nodes_, records_,
                     nextRegistration, taken, takenSnapshot, disconnected,
                     callerOptions>>

\* The records handleEvent builds for event e as change number change.
BaseRecord(e, change) ==
  IF e.type = AttrModified
    THEN AttributesRecord(e, <<change, 1>>)
    ELSE CharacterDataRecord(e, <<change, 1>>)

ExtendedRecord(e, change) ==
  RecordWithOldValue(BaseRecord(e, change),
                     IF e.type = AttrModified THEN AttrOldValue(e)
                                              ELSE e.prevValue)

\* One call registration.enqueue(record) of a registration of observer o, as
\* the walk makes it: the record is one of the two built for event e, which is
\* a new event (fresh) or the one whose walk is going on.
EnqueueCall(o, e, fresh, withOldValue) ==
  LET change == IF fresh THEN nextChange ELSE nextChange - 1
      record == IF withOldValue THEN ExtendedRecord(e, change)
                                ELSE BaseRecord(e, change)
  IN  /\ fresh \/ (last.op = "enqueue" /\ last.event = e)
      /\ arrays' = [arrays EXCEPT ![o][records_[o]] = Enqueue(@, record)]
      /\ nextChange' = IF fresh THEN nextChange + 1 ELSE nextChange
      /\ callbackRuns' = [c \in Observers |->
                           callbackRuns[c] + CallbackCalls(c, "enqueue")]
      /\ last' = [op |-> "enqueue", observer |-> o, event |-> e,
                  record |-> record, before |-> Queue(o)]
      /\ UNCHANGED <<registrationsTable, listeners, nodes_, records_,
                     nextRegistration, taken, takenSnapshot, disconnected,
                     callerOptions>>

Step(max) == steps < max /\ steps' = steps + 1

Next ==
  \/ \E o \in Observers, target \in MainNodes, options \in OptionsPool :
       Step(MaxSteps) /\ Observe(o, target, options)
  \/ \E o \in Observers : Step(MaxSteps) /\ Disconnect(o)
  \/ \E o \in Observers : Step(MaxSteps) /\ TakeRecords(o)
  \/ \E e \in EventsPool : Step(MaxSteps) /\ Change(e)

Spec == Init /\ [][Next]_vars

\* One observer, given any options at all, and any event at B or below it.
NextOptions ==
  \/ \E options \in {callerOptions, BaselineOptions} :
       Step(MaxOptionSteps) /\ Observe("o1", "B", options)
  \/ Step(MaxOptionSteps) /\ TakeRecords("o1")
  \/ \E e \in Events({"B", "C"}) : Step(MaxOptionSteps) /\ Change(e)

SpecOptions == InitOptions /\ [][NextOptions]_vars

\* The calls of enqueue alone, on the records of successive events.
NextEnqueue ==
  \/ \E o \in Observers, e \in EventsPool, fresh \in BOOLEAN,
        withOldValue \in BOOLEAN :
       Step(MaxEnqueueSteps) /\ EnqueueCall(o, e, fresh, withOldValue)
  \/ \E o \in Observers : Step(MaxEnqueueSteps) /\ TakeRecords(o)

SpecEnqueue == Init /\ [][NextEnqueue]_vars

\* Two observers on A and B, each kind watched without and with its old value.
NextVariants ==
  \/ \E o \in Observers, target \in MainNodes, options \in VariantOptions :
       Step(MaxVariantSteps) /\ Observe(o, target, options)
  \/ \E e \in VariantEvents : Step(MaxVariantSteps) /\ Change(e)

SpecVariants == Init /\ [][NextVariants]_vars

\* ------------------------------------------------------------------ properties

\* The observer's queue after the step.
QueueNext(o) == arrays'[o][records_'[o]]

\* The registrations the side table holds on node; those of observer o anywhere.
RegistrationsOn(table, node) ==
  IF node \in DOMAIN table
    THEN {table[node][i] : i \in 1..Len(table[node])}
    ELSE {}

RegistrationsOf(table, o) ==
  {r \in UNION {RegistrationsOn(table, node) : node \in DOMAIN table} :
     r.observer = o}

Elements(array) == {array[k] : k \in 1..Len(array)}

\* The attribute filter rule as the specification words it.
PassesFilter(options, e) ==
  \/ options.attributeFilter = NoArray
  \/ ArrayOf(options.attributeFilter) = <<>>
  \/ e.attrName \in Elements(ArrayOf(options.attributeFilter))
  \/ e.namespaceURI \in Elements(ArrayOf(options.attributeFilter))

\* An event of a kind the options watch.
Watches(options, e) ==
  \/ e.type = AttrModified /\ options.attributes /\ PassesFilter(options, e)
  \/ e.type = CharacterDataModified /\ options.characterData

KindOf(e) == IF e.type = AttrModified THEN "attributes" ELSE "characterData"

\* C1: when observe(target, options) has just succeeded for an observer whose
\* queue is empty and whose only registration is that one, a low-level change
\* at target of a kind the options watch leaves exactly one record in the
\* observer's queue, of the change's kind and target.
C1_ObserveThenChangeQueuesOne ==
  [][ (/\ last.op = "observe"
       /\ ~last.threw
       /\ last'.op = "change"
       /\ last'.event.target = last.target
       /\ Queue(last.observer) = <<>>
       /\ Cardinality(RegistrationsOf(registrationsTable, last.observer)) = 1
       /\ Watches(last.options, last'.event))
      => /\ Len(QueueNext(last.observer)) = 1
         /\ QueueNext(last.observer)[1].type = KindOf(last'.event)
         /\ QueueNext(last.observer)[1].target = last'.event.target ]_vars

\* C1's case: a filtered attribute registration replaced the baseline one, and
\* the change that followed at once was queued.
C1_Witness ==
  /\ last.op = "change"
  /\ last.event.type = AttrModified
  /\ last.event.target = "B"
  /\ steps = 3
  /\ callerOptions.attributeFilter = Array(<<"id">>)
  /\ \E r \in RegistrationsOf(registrationsTable, "o1") :
       r.options = callerOptions /\ r.target = "B"
  /\ Len(Queue("o1")) = 1
  /\ Queue("o1")[1].type = "attributes"

\* The nodes strictly above node.
ProperAncestors(node) == Ancestors(node)

\* C2: on a change at node B, an observer with no registration on B itself and
\* only subtree = false registrations on B's proper ancestors gets nothing; an
\* observer with a registration on a proper ancestor that has subtree = true
\* and watches the change gets a record of it.
C2_SubtreeScoping ==
  [][ last'.op = "change" =>
      \A o \in Observers :
        LET e == last'.event
            own == {r \in RegistrationsOf(registrationsTable, o) :
                      r.target = e.target}
            above == {r \in RegistrationsOf(registrationsTable, o) :
                        r.target \in ProperAncestors(e.target)}
        IN  /\ (own = {} /\ \A r \in above : ~r.options.subtree)
                 => QueueNext(o) = Queue(o)
            /\ (\E r \in above : r.options.subtree /\ Watches(r.options, e))
                 => /\ QueueNext(o) # Queue(o)
                    /\ QueueNext(o)[Len(QueueNext(o))].target = e.target
                    /\ QueueNext(o)[Len(QueueNext(o))].id[1] = nextChange ]_vars

\* C2's case: a change at B, with o1 on A without subtree (nothing queued) and
\* o2 on A with subtree (the change queued).
C2_Witness ==
  /\ last.op = "change"
  /\ last.event.target = "B"
  /\ \A r \in RegistrationsOf(registrationsTable, "o1") :
       r.target = "A" /\ ~r.options.subtree /\ r.options.attributes
  /\ RegistrationsOf(registrationsTable, "o1") # {}
  /\ \E r \in RegistrationsOf(registrationsTable, "o2") :
       r.target = "A" /\ r.options.subtree
  /\ RegistrationsOn(registrationsTable, "B") = {}
  /\ Queue("o1") = <<>>
  /\ Len(Queue("o2")) = 1
  /\ Queue("o2")[1].target = "B"

\* At most one Registration of each observer in each node's list.
OneRegistrationPerObserver ==
  \A node \in DOMAIN registrationsTable : \A o \in Observers :
    Cardinality({i \in 1..Len(registrationsTable[node]) :
                   registrationsTable[node][i].observer = o}) <= 1

\* C3: every node's list holds at most one Registration per observer, and an
\* observe by an observer already registered on target keeps the length of
\* target's list and reuses the Registration, with the new options.
C3_NoDuplicateRegistration ==
  /\ []OneRegistrationPerObserver
  /\ [][ (/\ last'.op = "observe"
          /\ ~last'.threw
          /\ \E r \in RegistrationsOn(registrationsTable, last'.target) :
               r.observer = last'.observer)
         => /\ Len(registrationsTable'[last'.target])
                 = Len(registrationsTable[last'.target])
            /\ \A i \in 1..Len(registrationsTable[last'.target]) :
                 /\ registrationsTable'[last'.target][i].id
                      = registrationsTable[last'.target][i].id
                 /\ registrationsTable[last'.target][i].observer = last'.observer
                      => registrationsTable'[last'.target][i].options
                           = last'.options ]_vars

\* C3's case: a repeat observe with other options on a node that also holds
\* the other observer's registration.
C3_Witness ==
  /\ last.op = "observe"
  /\ ~last.threw
  /\ ~last.created
  /\ Len(registrationsTable[last.target]) = 2
  /\ \E r \in RegistrationsOn(registrationsTable, last.target) :
       r.observer = last.observer /\ r.options = last.options
  /\ \E l \in listeners :
       /\ l.object.observer = last.observer
       /\ l.type = CharacterDataModified
       /\ ~last.options.characterData

\* C4: an observe that fails with the configuration error changes nothing: not
\* the side table, the listeners, the observer's node list or any queue.
C4_FailedObserveChangesNothing ==
  [][ (last'.op = "observe" /\ last'.threw)
      => UNCHANGED <<registrationsTable, listeners, nodes_, records_, arrays>>
    ]_vars

\* C4's case: the failed observe was on a node the observer is registered on.
C4_Witness ==
  /\ last.op = "observe"
  /\ last.threw
  /\ \E r \in RegistrationsOn(registrationsTable, last.target) :
       r.observer = last.observer
  /\ \E l \in listeners : l.node = last.target

\* The four faults of the options, as the specification lists them.
ConfigurationFault(options) ==
  \/ {options.childList, options.attributes, options.characterData} = {FALSE}
  \/ options.attributeOldValue /\ ~options.attributes
  \/ /\ options.attributeFilter \notin {NoArray, Array(<<>>)}
     /\ ~options.attributes
  \/ options.characterDataOldValue /\ ~options.characterData

\* C5: observe fails exactly when the options have one of the four faults;
\* otherwise the observer's registration on target carries the options.
C5_ObserveFailsIffFault ==
  last.op = "observe" =>
    /\ last.threw <=> ConfigurationFault(last.options)
    /\ ~last.threw =>
         \E r \in RegistrationsOn(registrationsTable, last.target) :
           r.observer = last.observer /\ r.options = last.options

\* C5's case: an empty attributeFilter without attributes is accepted, as the
\* update of an existing registration.
C5_Witness ==
  /\ last.op = "observe"
  /\ ~last.threw
  /\ ~last.created
  /\ last.options.attributeFilter = Array(<<>>)
  /\ ~last.options.attributes
  /\ \E r \in RegistrationsOn(registrationsTable, "B") :
       r.options = last.options

\* The registrations of a list that are not observer o's, in their order.
NotOf(registrations, o) ==
  LET keep(r) == r.observer # o IN SelectSeq(registrations, keep)

\* C6: disconnect() takes the observer's own registration out of every node's
\* list, leaves the other observers' registrations there in their order, and
\* leaves the observer's queue empty.
C6_DisconnectRemovesOwnOnly ==
  [][ last'.op = "disconnect" =>
      /\ DOMAIN registrationsTable' = DOMAIN registrationsTable
      /\ \A node \in DOMAIN registrationsTable :
           registrationsTable'[node]
             = NotOf(registrationsTable[node], last'.observer)
      /\ QueueNext(last'.observer) = <<>> ]_vars

\* C6's case: the observer was registered on two nodes and shared one of
\* them with the other observer, whose registration is left.
C6_Witness ==
  /\ last.op = "disconnect"
  /\ last.removed = {"A", "B"}
  /\ \E r \in RegistrationsOn(registrationsTable, "A") :
       r.observer # last.observer
  /\ RegistrationsOf(registrationsTable, last.observer) = {}

\* C7: from disconnect() until the observer's next observe(), its queue stays
\* empty, whatever changes and calls of the other observer happen.
C7_NoRecordsAfterDisconnect ==
  \A o \in disconnected : Queue(o) = <<>>

\* C7's case: after o1's disconnect a change at a node o1 had observed was
\* handled and queued for o2.
C7_Witness ==
  /\ "o1" \in disconnected
  /\ last.op = "change"
  /\ last.runs = 1
  /\ last.event.target \in Elements(nodes_["o1"])
  /\ Queue("o2") # <<>>
  /\ Queue("o1") = <<>>

\* C8: takeRecords() returns the whole queue and leaves the queue empty; called
\* again with nothing enqueued in between it returns an empty sequence; and
\* the sequence it returned is never changed afterwards.
C8_TakeRecordsDrains ==
  /\ [](\A o \in Observers :
          taken[o] # 0 => arrays[o][taken[o]] = takenSnapshot[o])
  /\ [][ last'.op = "takeRecords" =>
         /\ arrays'[last'.observer][taken'[last'.observer]]
              = Queue(last'.observer)
         /\ QueueNext(last'.observer) = <<>>
         /\ (last = [op |-> "takeRecords", observer |-> last'.observer])
              => arrays'[last'.observer][taken'[last'.observer]] = <<>> ]_vars

\* C8's case: the caller holds a returned sequence of one record, and a later
\* change has been enqueued since.
C8_Witness ==
  /\ taken["o1"] # 0
  /\ Len(takenSnapshot["o1"]) = 1
  /\ arrays["o1"][taken["o1"]] = takenSnapshot["o1"]
  /\ last.op = "change"
  /\ Len(Queue("o1")) = 1
  /\ Queue("o1")[1].id[1] > takenSnapshot["o1"][1].id[1]

\* A sequence of records has the records of earlier changes first.
OldestFirst(records) ==
  \A i, j \in 1..Len(records) : i < j => records[i].id[1] <= records[j].id[1]

\* C9: the queue, and so what takeRecords() returns, holds the records in the
\* order of the changes, also after an entry was upgraded in place.
C9_Fifo ==
  \A o \in Observers :
    /\ OldestFirst(Queue(o))
    /\ taken[o] # 0 => OldestFirst(arrays[o][taken[o]])

\* C9's case: two changes queued for an observer whose first entry was queued
\* as the base record (its registration on B) and upgraded (the one on A).
C9_Witness ==
  \E o \in Observers :
    /\ Len(Queue(o)) = 2
    /\ Queue(o)[1].variant = "recordWithOldValue"
    /\ Queue(o)[1].target = "B"
    /\ Queue(o)[1].id[1] < Queue(o)[2].id[1]
    /\ \E r \in RegistrationsOn(registrationsTable, "B") :
         r.observer = o /\ r.options.attributes /\ ~r.options.attributeOldValue
    /\ \E r \in RegistrationsOn(registrationsTable, "A") :
         r.observer = o /\ r.options.attributeOldValue

\* The registrations of o that the walk from e.target offers the change to.
Applicable(table, o, e) ==
  {r \in RegistrationsOf(table, o) :
     \/ r.target = e.target
     \/ r.target \in ProperAncestors(e.target) /\ r.options.subtree}

\* C10: for an observer whose one applicable registration watches attributes,
\* an attribute change is queued exactly when the filter is absent or empty or
\* holds the attribute's local name or its namespace URI.
C10_AttributeFilter ==
  [][ (last'.op = "change" /\ last'.event.type = AttrModified) =>
      \A o \in Observers :
        \A r \in Applicable(registrationsTable, o, last'.event) :
          (Applicable(registrationsTable, o, last'.event) = {r}
             /\ r.options.attributes)
          => IF PassesFilter(r.options, last'.event)
               THEN /\ Len(QueueNext(o)) = Len(Queue(o)) + 1
                    /\ QueueNext(o)[Len(QueueNext(o))].attributeName
                         = last'.event.attrName
               ELSE QueueNext(o) = Queue(o) ]_vars

\* C10's case: a change of "class" in namespace "ns" queued under the filter
\* ["ns"], which holds the namespace and not the name.
C10_Witness ==
  /\ last.op = "change"
  /\ last.event.attrName = "class"
  /\ last.event.namespaceURI = "ns"
  /\ \E r \in RegistrationsOn(registrationsTable, "B") :
       r.options.attributeFilter = Array(<<"ns">>)
  /\ Len(Queue("o1")) = 1
  /\ Queue("o1")[1].attributeName = "class"
  /\ Queue("o1")[1].attributeNamespace = "ns"

\* base is the record from which extended was derived.
IsBaseOf(base, extended) ==
  /\ base.variant = "record"
  /\ extended.variant = "recordWithOldValue"
  /\ base.id = extended.id

\* C11: enqueue(record) appends to an empty queue; leaves the queue as it is
\* when record is the last entry or the base of the last entry; puts record in
\* the place of the last entry when that is the base of record; and appends in
\* every other case.
C11_Coalescing ==
  [][ last'.op = "enqueue" =>
      LET queue == Queue(last'.observer)
          after == QueueNext(last'.observer)
          record == last'.record
          final == queue[Len(queue)]
      IN  IF queue = <<>>
            THEN after = <<record>>
            ELSE IF record = final \/ IsBaseOf(record, final)
                   THEN after = queue
                   ELSE IF IsBaseOf(final, record)
                          THEN /\ Len(after) = Len(queue)
                               /\ after[Len(after)] = record
                               /\ SubSeq(after, 1, Len(after) - 1)
                                    = SubSeq(queue, 1, Len(queue) - 1)
                          ELSE after = Append(queue, record) ]_vars

\* C11's case: after an earlier entry, the base record of a change was queued,
\* its extended record came next and took its place, carrying the old value.
C11_Witness ==
  /\ last.op = "enqueue"
  /\ Len(last.before) = 2
  /\ IsBaseOf(last.before[2], last.record)
  /\ Len(Queue(last.observer)) = 2
  /\ Queue(last.observer)[2] = last.record
  /\ Queue(last.observer)[2].oldValue = "old"

\* C12: no operation calls an observer's callback: not the handling of a
\* low-level change, nor observe, disconnect or takeRecords.
C12_CallbackNeverCalled ==
  \A o \in Observers : callbackRuns[o] = 0

\* C12's case: a change was handled and queued for o1, whose callback has not
\* run; the record is in the queue for takeRecords to return.
C12_Witness ==
  /\ last.op = "change"
  /\ last.runs = 1
  /\ Len(Queue("o1")) = 1
  /\ Queue("o1")[1].id[1] = nextChange - 1
  /\ callbackRuns["o1"] = 0

\* C13: after disconnect() the observer's node list is empty, and at all times
\* the list holds exactly the nodes the observer is registered on, each once.
C13_NodeListIsRegisteredNodes ==
  /\ last.op = "disconnect" => nodes_[last.observer] = <<>>
  /\ \A o \in Observers :
       /\ Elements(nodes_[o])
            = {r.target : r \in RegistrationsOf(registrationsTable, o)}
       /\ Len(nodes_[o]) = Cardinality(Elements(nodes_[o]))

\* C14: after disconnect() no listener that a registration of the observer
\* attached is still attached to any node.
C14_DisconnectDetachesListeners ==
  last.op = "disconnect" =>
    \A l \in listeners :
      ~(l.object.kind = "Registration" /\ l.object.observer = last.observer)

\* The listeners that registration has attached on its target.
ListenerTypes(ls, registration) ==
  {l.type : l \in {x \in ls : /\ x.node = registration.target
                              /\ x.object = RegistrationObject(registration)}}

\* C15: after a repeat observe(target, newOptions) the registration listens to
\* attribute events exactly if newOptions watches attributes, and to
\* character-data events exactly if newOptions watches characterData.
C15_ReobserveRewiresListeners ==
  (last.op = "observe" /\ ~last.threw /\ ~last.created) =>
    \A r \in RegistrationsOn(registrationsTable, last.target) :
      r.observer = last.observer =>
        /\ AttrModified \in ListenerTypes(listeners, r)
             <=> last.options.attributes
        /\ CharacterDataModified \in ListenerTypes(listeners, r)
             <=> last.options.characterData

\* C16: a successful repeat observe(target, newOptions) leaves the observer's
\* one registration on target holding newOptions; registrations change by no
\* step but observe and disconnect; and every change is dispatched by the
\* options the applicable registrations hold when it happens: the observer's
\* queue gets a record of the change if one of them watches it, and is left
\* alone if none does, whatever options they held before.
C16_ReobserveDispatchesByNewOptions ==
  [][ /\ (last'.op = "observe" /\ ~last'.threw /\ ~last'.created) =>
           /\ \E r \in RegistrationsOn(registrationsTable, last'.target) :
                r.observer = last'.observer
           /\ \A r \in RegistrationsOn(registrationsTable', last'.target) :
                r.observer = last'.observer => r.options = last'.options
      /\ last'.op \in {"change", "takeRecords"} =>
           registrationsTable' = registrationsTable
      /\ last'.op = "change" =>
           \A o \in Observers :
             IF \E r \in Applicable(registrationsTable, o, last'.event) :
                  Watches(r.options, last'.event)
               THEN /\ Len(QueueNext(o)) = Len(Queue(o)) + 1
                    /\ QueueNext(o)[Len(QueueNext(o))].id[1] = nextChange
                    /\ QueueNext(o)[Len(QueueNext(o))].target
                         = last'.event.target
               ELSE QueueNext(o) = Queue(o) ]_vars

\* C16's case: the baseline registration (characterData) was replaced by
\* options that watch attributes and not characterData; the character-data
\* change that followed was handled, by the listener of the old options, and
\* queued nothing.
C16_Witness ==
  /\ last.op = "change"
  /\ last.event.type = CharacterDataModified
  /\ last.event.target = "B"
  /\ last.runs = 1
  /\ steps = 3
  /\ callerOptions.attributes /\ ~callerOptions.characterData
  /\ nextRegistration = 2
  /\ \E r \in RegistrationsOn(registrationsTable, "B") :
       r.observer = "o1" /\ r.options = callerOptions
  /\ Queue("o1") = <<>>

\* The options ask for the previous value of a change of e's kind.
WantsOldValue(options, e) ==
  IF e.type = AttrModified THEN options.attributeOldValue
                           ELSE options.characterDataOldValue

\* The event has a previous value to report (an added attribute has none).
HasPreviousValue(e) == ~(e.type = AttrModified /\ e.attrChange = ADDITION)

\* C17: for an observer whose single applicable registration watches the
\* change, the record queued is of this change and is the extended one exactly
\* if the registration's old-value option for the change's kind is set; where
\* the change has a previous value the record carries it exactly in that case,
\* and the base record carries none.  This holds for each observer by itself,
\* whatever the other observer's options are.
C17_VariantByOwnOptions ==
  [][ last'.op = "change" =>
      \A o \in Observers :
        \A r \in Applicable(registrationsTable, o, last'.event) :
          (Applicable(registrationsTable, o, last'.event) = {r}
             /\ Watches(r.options, last'.event))
          => LET e == last'.event
                 queued == QueueNext(o)[Len(QueueNext(o))]
             IN  /\ Len(QueueNext(o)) = Len(Queue(o)) + 1
                 /\ queued.id[1] = nextChange
                 /\ queued.variant = "recordWithOldValue"
                      <=> WantsOldValue(r.options, e)
                 /\ HasPreviousValue(e) =>
                      (queued.oldValue = e.prevValue
                         <=> WantsOldValue(r.options, e))
                 /\ ~WantsOldValue(r.options, e) => queued.oldValue = Null ]_vars

\* C17's case: one attribute change at B reached o1, registered on B without
\* attributeOldValue, as the base record and o2, registered on B with it, as
\* the extended record carrying the previous value.
C17_Witness ==
  /\ last.op = "change"
  /\ last.event = Event(AttrModified, "B", "id", Null, MODIFICATION)
  /\ \E r \in RegistrationsOn(registrationsTable, "B") :
       r.observer = "o1" /\ r.options.attributes
         /\ ~r.options.attributeOldValue
  /\ \E r \in RegistrationsOn(registrationsTable, "B") :
       r.observer = "o2" /\ r.options.attributeOldValue
  /\ Len(Queue("o1")) = 1 /\ Len(Queue("o2")) = 1
  /\ Queue("o1")[1].variant = "record"
  /\ Queue("o1")[1].oldValue = Null
  /\ Queue("o2")[1].variant = "recordWithOldValue"
  /\ Queue("o2")[1].oldValue = "old"
  /\ Queue("o1")[1].id = Queue("o2")[1].id

\* No two entries of the array come from one change: neither a record twice
\* nor a base record and its extended record.
OneEntryPerChange(array) ==
  \A i, j \in 1..Len(array) : array[i].id[1] = array[j].id[1] => i = j

\* C18: a change adds at most one entry to an observer's queue however many
\* registrations of the observer the walk meets; no queue ever holds two
\* entries of one change; and if one of the observer's applicable registrations
\* that watch the change asks for the previous value, the entry is the
\* extended record of this change.
C18_OneEntryPerChange ==
  [][ /\ \A o \in Observers : OneEntryPerChange(QueueNext(o))
      /\ last'.op = "change" =>
           \A o \in Observers :
             /\ Len(QueueNext(o)) <= Len(Queue(o)) + 1
             /\ (\E r \in Applicable(registrationsTable, o, last'.event) :
                   /\ Watches(r.options, last'.event)
                   /\ WantsOldValue(r.options, last'.event))
                => /\ Len(QueueNext(o)) = Len(Queue(o)) + 1
                   /\ QueueNext(o)[Len(QueueNext(o))].variant
                        = "recordWithOldValue"
                   /\ QueueNext(o)[Len(QueueNext(o))].id[1] = nextChange ]_vars

\* C18's case: o1 is registered on B with attributeOldValue and on A without
\* it; the walk of an attribute change at B offered the extended record first
\* and the base record second, and the queue holds the extended record alone.
C18_Witness ==
  /\ last.op = "change"
  /\ last.event = Event(AttrModified, "B", "id", Null, MODIFICATION)
  /\ \E r \in RegistrationsOn(registrationsTable, "B") :
       r.observer = "o1" /\ r.options.attributeOldValue
  /\ \E r \in RegistrationsOn(registrationsTable, "A") :
       r.observer = "o1" /\ r.options.attributes /\ r.options.subtree
         /\ ~r.options.attributeOldValue
  /\ Len(Queue("o1")) = 1
  /\ Queue("o1")[1].variant = "recordWithOldValue"
  /\ Queue("o1")[1].id[1] = nextChange - 1

\* The enqueue calls of the array that offer a record to registration id.
CallsTo(calls, id) == {k \in 1..Len(calls) : calls[k].registration = id}

\* C19: for a change that meets at least one attached listener of its type on
\* the target and its ancestors, however many they are and whether or not
\* their registrations are still in the side table, exactly one handler runs
\* and so one ancestor walk: each applicable registration that watches the
\* change is offered a record once, and every record an observer holds of the
\* change comes from that one run, at most one per observer.
C19_OneWalkPerChange ==
  [][ last'.op = "change" =>
      LET e == last'.event
          met == Cardinality(ListenersOnPath(listeners, e))
          calls == HandleEvents(registrationsTable, e, nextChange, 1,
                                last'.runs)
      IN  /\ last'.runs = IF met >= 1 THEN 1 ELSE 0
          /\ \A o \in Observers :
               /\ \A r \in Applicable(registrationsTable, o, e) :
                    Watches(r.options, e) =>
                      Cardinality(CallsTo(calls, r.id)) = 1
               /\ Cardinality({k \in 1..Len(QueueNext(o)) :
                                 QueueNext(o)[k].id[1] = nextChange}) <= 1
               /\ \A k \in 1..Len(QueueNext(o)) :
                    QueueNext(o)[k].id[2] = 1 ]_vars

\* C19's case: an attribute change at B met two listeners, one left attached
\* by a registration that disconnect removed and one of o2's registration; one
\* handler ran and o2 holds one record of the change.
C19_Witness ==
  /\ last.op = "change"
  /\ last.event.type = AttrModified
  /\ last.event.target = "B"
  /\ last.runs = 1
  /\ Cardinality(ListenersOnPath(listeners, last.event)) >= 2
  /\ \E l \in ListenersOnPath(listeners, last.event) :
       \A node \in DOMAIN registrationsTable :
         \A r \in RegistrationsOn(registrationsTable, node) :
           r.id # l.object.id
  /\ RegistrationsOf(registrationsTable, "o2") # {}
  /\ Len(Queue("o2")) = 1
  /\ Queue("o2")[1].id = <<nextChange - 1, 1>>

\* C20: when a change has just been queued for an observer and a second,
\* separate change with the same kind, target, attribute name, namespace and
\* previous value follows at once, the observer's queue gets a second record:
\* it grows by one more entry, and its last two entries have the same field
\* values and come from the two changes.
C20_CoalescingByIdentity ==
  [][ (/\ last.op = "change"
       /\ last.runs = 1
       /\ last'.op = "change"
       /\ last'.event = last.event)
      => \A o \in Observers :
           (/\ Queue(o) # <<>>
            /\ Queue(o)[Len(Queue(o))].id[1] = nextChange - 1)
           => LET n == Len(QueueNext(o))
              IN  /\ n = Len(Queue(o)) + 1
                  /\ QueueNext(o)[n - 1] = Queue(o)[n - 1]
                  /\ Fields(QueueNext(o)[n]) = Fields(QueueNext(o)[n - 1])
                  /\ QueueNext(o)[n].id[1] = nextChange
                  /\ QueueNext(o)[n].id # QueueNext(o)[n - 1].id ]_vars

\* C20's case: o1 asked for old values; two character-data changes at B with
\* the same previous value left two extended records, equal in every field.
C20_Witness ==
  /\ last.op = "change"
  /\ last.event = Event(CharacterDataModified, "B", Null, Null, MODIFICATION)
  /\ Len(Queue("o1")) = 2
  /\ Queue("o1")[1].variant = "recordWithOldValue"
  /\ Fields(Queue("o1")[1]) = Fields(Queue("o1")[2])
  /\ Queue("o1")[1].id[1] = nextChange - 2
  /\ Queue("o1")[2].id[1] = nextChange - 1

====
